---- MODULE Spec2Model ----
(***************************************************************************)
(* A model of the trace-driven multi-level cache simulator:                *)
(*   - Cache (address decoding, lookup, getByte, setByte, fill, LRU        *)
(*     victim selection, write-back), one record per level;                *)
(*   - the driver loop of MainMulCache.cpp with its stride prefetcher.     *)
(* A hierarchy is a record h = [caches, mem, ret, cycles, log, fatal,      *)
(* junk]; caches[1] is the top level, caches[Len(caches)] has no lower     *)
(* cache and talks to the memory.  Every C++ method is an operator that    *)
(* maps a hierarchy to the hierarchy after the call.                       *)
(***************************************************************************)
EXTENDS Integers, Sequences, FiniteSets, TLC

VARIABLES
    hier,    \* the hierarchy under test (with the prefetch controller in the driver)
    plain,   \* the same hierarchy fed the same trace without the controller
    ctl,     \* the driver's locals: last_addr, stride, is_prefetch, the two counts
    trace,   \* history: the accesses applied so far
    mode     \* "lib": the Cache API is called directly; "driver": main's loop runs

vars == <<hier, plain, ctl, trace, mode>>

(***************************************************************************)
(* Bounds of the model.                                                    *)
(***************************************************************************)
\* number of API calls / trace records applied in one behaviour
MaxOps == 3
\* bytes written by setByte in the API specification are 1..MaxVal
MaxVal == 1
\* length of the driver's trace
MaxTrace == 5
\* length of the round-trip call sequences
MaxRoundTrip == 5
\* length of the driver's trace when the controller is followed through
\* activation and deactivation
MaxLongTrace == 7

\* width of an address in the model; the code's addresses are uint32_t
AddrWidth == 5

\* width of a field of Policy in the model; the code's fields are uint32_t
FieldWidth == 6
\* policies handed to the constructor take their fields from 0 .. MaxField
\* and the powers of two of the field width
MaxField == 5

\* UINT32_MAX, the start value of the LRU minimum search.  The model checker's
\* integers are 32-bit signed, so its largest integer stands for it; every
\* lastReference of the model is far below it.
UINT32_MAX == 2147483647

\* cycles charged per byte read from the memory
MemReadCycles == 100

RECURSIVE Pow2(_)
Pow2(n) == IF n = 0 THEN 1 ELSE 2 * Pow2(n - 1)

\* a & b on non-negative integers
RECURSIVE BitAnd(_, _)
BitAnd(a, b) ==
    IF a = 0 \/ b = 0 THEN 0
    ELSE (a % 2) * (b % 2) + 2 * BitAnd(a \div 2, b \div 2)

\* a | b on non-negative integers
RECURSIVE BitOr(_, _)
BitOr(a, b) ==
    IF a = 0 THEN b
    ELSE IF b = 0 THEN a
    ELSE (IF (a % 2) + (b % 2) > 0 THEN 1 ELSE 0) + 2 * BitOr(a \div 2, b \div 2)

\* conversion of an integer to an unsigned address of AddrWidth bits
ToAddr(x) == x % Pow2(AddrWidth)

(***************************************************************************)
(* Cache::isPowerOfTwo, Cache::log2i                                       *)
(***************************************************************************)
isPowerOfTwo(n) == n > 0 /\ BitAnd(n, n - 1) = 0

RECURSIVE log2iLoop(_, _)
log2iLoop(val, ret) == IF val > 1 THEN log2iLoop(val \div 2, ret + 1) ELSE ret

log2i(val) ==
    IF val = 0 THEN -1
    ELSE IF val = 1 THEN 0
    ELSE log2iLoop(val, 0)

(***************************************************************************)
(* Cache::isPolicyValid (the checks in the order of the code)              *)
(***************************************************************************)
\* the product is an unsigned product of the field width; blockNum % 0 has
\* no defined result
Valid == "valid"
Invalid == "invalid"
Undefined == "undefined"

isPolicyValid(policy) ==
    IF ~isPowerOfTwo(policy.cacheSize) THEN Invalid
    ELSE IF ~isPowerOfTwo(policy.blockSize) THEN Invalid
    ELSE IF policy.cacheSize % policy.blockSize # 0 THEN Invalid
    ELSE IF (policy.blockNum * policy.blockSize) % Pow2(FieldWidth) # policy.cacheSize
         THEN Invalid
    ELSE IF policy.associativity = 0 THEN Undefined
    ELSE IF policy.blockNum % policy.associativity # 0 THEN Invalid
    ELSE Valid

(***************************************************************************)
(* Address decoding: Cache::getTag, getId, getOffset, getAddr.             *)
(* c is a cache level; the masks are those of the code with the address    *)
(* width of the model.                                                     *)
(***************************************************************************)
getTag(c, addr) ==
    LET offsetBits == log2i(c.policy.blockSize)
        idBits == log2i(c.policy.blockNum \div c.policy.associativity)
        mask == Pow2(AddrWidth - offsetBits - idBits) - 1
    IN BitAnd(addr \div Pow2(offsetBits + idBits), mask)

getId(c, addr) ==
    LET offsetBits == log2i(c.policy.blockSize)
        idBits == log2i(c.policy.blockNum \div c.policy.associativity)
        mask == Pow2(idBits) - 1
    IN BitAnd(addr \div Pow2(offsetBits), mask)

getOffset(c, addr) ==
    LET bits == log2i(c.policy.blockSize)
        mask == Pow2(bits) - 1
    IN BitAnd(addr, mask)

getAddr(c, b) ==
    LET offsetBits == log2i(c.policy.blockSize)
        idBits == log2i(c.policy.blockNum \div c.policy.associativity)
    IN BitOr(ToAddr(b.tag * Pow2(offsetBits + idBits)), ToAddr(b.id * Pow2(offsetBits)))

(***************************************************************************)
(* Cache::initCache and the constructor Cache::Cache.                      *)
(* synced is history kept beside the blocks: synced[i] is FALSE from the   *)
(* moment setByte stores a byte into slot i until the slot's bytes are     *)
(* next handed to writeBlockToLowerLevel.                                  *)
(***************************************************************************)
initCache(policy) ==
    [i \in 0 .. policy.blockNum - 1 |->
        [valid |-> FALSE, modified |-> FALSE, size |-> policy.blockSize,
         tag |-> 0, id |-> i \div policy.associativity, lastReference |-> 0,
         data |-> [j \in 0 .. policy.blockSize - 1 |-> 0]]]

Cache(policy, writeBack, writeAllocate) ==
    [referenceCounter |-> 0,
     policy |-> policy,
     blocks |-> initCache(policy),
     statistics |-> [numRead |-> 0, numWrite |-> 0, numHit |-> 0, numMiss |-> 0,
                     totalCycles |-> 0],
     writeBack |-> writeBack,
     writeAllocate |-> writeAllocate,
     synced |-> [i \in 0 .. policy.blockNum - 1 |-> TRUE]]

(***************************************************************************)
(* Cache::getBlockId.  NotFound is the code's -1; Inconsistent stands for  *)
(* the "Inconsistent ID" exit.                                             *)
(***************************************************************************)
NotFound == -1
Inconsistent == -2

RECURSIVE getBlockIdLoop(_, _, _, _, _)
getBlockIdLoop(c, id, tag, i, end) ==
    IF i >= end THEN NotFound
    ELSE IF c.blocks[i].id # id THEN Inconsistent
    ELSE IF c.blocks[i].valid /\ c.blocks[i].tag = tag THEN i
    ELSE getBlockIdLoop(c, id, tag, i + 1, end)

getBlockId(c, addr) ==
    LET tag == getTag(c, addr)
        id == getId(c, addr)
    IN getBlockIdLoop(c, id, tag, id * c.policy.associativity,
                      (id + 1) * c.policy.associativity)

inCache(c, addr) == getBlockId(c, addr) # NotFound

(***************************************************************************)
(* Cache::getReplacementBlockId                                            *)
(***************************************************************************)
RECURSIVE firstInvalid(_, _, _)
firstInvalid(c, i, end) ==
    IF i >= end THEN NotFound
    ELSE IF ~c.blocks[i].valid THEN i
    ELSE firstInvalid(c, i + 1, end)

RECURSIVE minReferenceLoop(_, _, _, _, _)
minReferenceLoop(c, i, end, resultId, minReference) ==
    IF i >= end THEN resultId
    ELSE IF c.blocks[i].lastReference < minReference
         THEN minReferenceLoop(c, i + 1, end, i, c.blocks[i].lastReference)
         ELSE minReferenceLoop(c, i + 1, end, resultId, minReference)

\* a search that keeps the largest lastReference (most recently used)
RECURSIVE maxReferenceLoop(_, _, _, _, _)
maxReferenceLoop(c, i, end, resultId, maxReference) ==
    IF i >= end THEN resultId
    ELSE IF c.blocks[i].lastReference > maxReference
         THEN maxReferenceLoop(c, i + 1, end, i, c.blocks[i].lastReference)
         ELSE maxReferenceLoop(c, i + 1, end, resultId, maxReference)

getReplacementBlockId_MRU(c, begin, end) ==
    LET inv == firstInvalid(c, begin, end)
    IN IF inv # NotFound THEN inv
       ELSE maxReferenceLoop(c, begin, end, begin, -1)

\* a search over the whole table instead of the set's window
getReplacementBlockId_AnySet(c, begin, end) ==
    LET inv == firstInvalid(c, 0, c.policy.blockNum)
    IN IF inv # NotFound THEN inv
       ELSE minReferenceLoop(c, 0, c.policy.blockNum, 0, UINT32_MAX)

getReplacementBlockId(c, begin, end) ==
    LET inv == firstInvalid(c, begin, end)
    IN IF inv # NotFound THEN inv
       ELSE minReferenceLoop(c, begin, end, begin, UINT32_MAX)

(***************************************************************************)
(* The memory collaborator (MemoryManager, not among the sources): paged   *)
(* byte storage read and written uncached.  mem holds the bytes written;   *)
(* every other byte of a page reads 0.                                     *)
(***************************************************************************)
getByteNoCache(mem, addr) == IF addr \in DOMAIN mem THEN mem[addr] ELSE 0

setByteNoCache(mem, addr, val) ==
    [a \in DOMAIN mem \cup {addr} |-> IF a = addr THEN val ELSE mem[a]]

(***************************************************************************)
(* History of one call from outside: log is the sequence of events of the  *)
(* call, in program order.  lvl is the level that acts.                    *)
(*   "get"/"set"  a getByte/setByte call arrives at lvl (hit: it hit)      *)
(*   "lowerRead"  lvl reads addr from its lower neighbour (or the memory)  *)
(*   "lowerWrite" lvl writes val to addr of its lower neighbour (memory)   *)
(*   "fill"       lvl overwrites slot; old is the slot before, before the  *)
(*                block table when the victim was chosen, hit tells        *)
(*                whether old's bytes were propagated since their last     *)
(*                modification                                             *)
(*   "memRead"/"memWrite"  the memory is read / written at addr (lvl 0)    *)
(*   "inCache"    the driver asks inCache(addr) of the top level           *)
(***************************************************************************)
NoBlock == [valid |-> FALSE, modified |-> FALSE, size |-> 0, tag |-> 0, id |-> 0,
            lastReference |-> 0, data |-> <<>>]

Ev(kind, lvl, addr, val, pf, hit) ==
    [kind |-> kind, lvl |-> lvl, addr |-> addr, val |-> val, pf |-> pf, hit |-> hit,
     slot |-> NotFound, old |-> NoBlock, before |-> <<>>]

EvFill(lvl, addr, slot, old, before, propagated) ==
    [kind |-> "fill", lvl |-> lvl, addr |-> addr, val |-> 0, pf |-> FALSE,
     hit |-> propagated, slot |-> slot, old |-> old, before |-> before]

NoError == "none"

\* exit(-1) with the given diagnostic
Fatal(h, msg) == [h EXCEPT !.fatal = msg]

\* level k has a lowerCache (the last level has none: lowerCache == nullptr)
HasLower(h, k) == k < Len(h.caches)

\* memory->setByteNoCache(addr, val) by the last level
MemWrite(h, addr, val) ==
    [h EXCEPT !.mem = setByteNoCache(@, addr, val),
              !.log = Append(@, Ev("memWrite", 0, addr, val, FALSE, FALSE))]

\* memory->getByteNoCache(addr) by the last level, and *cycles += 100
MemRead(h, addr, cyc) ==
    [h EXCEPT !.ret = getByteNoCache(h.mem, addr),
              !.cycles = IF cyc THEN @ + MemReadCycles ELSE @,
              !.log = Append(@, Ev("memRead", 0, addr, getByteNoCache(h.mem, addr),
                                   FALSE, FALSE))]

(***************************************************************************)
(* Cache::getByte, Cache::setByte, Cache::loadBlockFromLowerLevel and      *)
(* Cache::writeBlockToLowerLevel on level k of hierarchy h.                *)
(* cyc: the caller passed a cycles pointer; h.cycles is what it points to. *)
(***************************************************************************)
RECURSIVE getByte(_, _, _, _, _)
RECURSIVE setByte(_, _, _, _, _)
RECURSIVE loadBlockFromLowerLevel(_, _, _, _, _)
RECURSIVE writeBlockLoop(_, _, _, _, _)

\* the for loop of writeBlockToLowerLevel from index i on
writeBlockLoop(h, k, b, addrBegin, i) ==
    IF h.fatal # NoError \/ i >= b.size THEN h
    ELSE LET hl == [h EXCEPT !.log = Append(@, Ev("lowerWrite", k, addrBegin + i,
                                                    b.data[i], FALSE, FALSE))]
         IN writeBlockLoop(IF HasLower(h, k)
                           THEN setByte(hl, k + 1, addrBegin + i, b.data[i], FALSE)
                           ELSE MemWrite(hl, addrBegin + i, b.data[i]),
                           k, b, addrBegin, i + 1)

writeBlockToLowerLevel(h, k, b) ==
    writeBlockLoop(h, k, b, getAddr(h.caches[k], b), 0)

\* a fill whose loop reads the first two bytes of the block
readBlockBegin_TwoBytes(h, k, addr, cyc, is_prefetch) ==
    LET blockSize == h.caches[k].policy.blockSize
        blockAddrBegin == BitAnd(addr, Pow2(AddrWidth) - blockSize)
        readOne(hh, a) ==
            LET hl == [hh EXCEPT !.log = Append(@, Ev("lowerRead", k, a, 0,
                                                      is_prefetch, FALSE))]
            IN IF HasLower(hh, k)
               THEN getByte(hl, k + 1, a, cyc, is_prefetch)
               ELSE MemRead(hl, a, cyc)
    IN readOne(readOne(h, blockAddrBegin + 1), blockAddrBegin)

\* lines 221-232 of the fill: the loop runs for i = blockAddrBegin only, so one
\* byte is read from the level below (h.ret afterwards)
readBlockBegin(h, k, addr, cyc, is_prefetch) ==
    LET blockSize == h.caches[k].policy.blockSize
        \* addr & ~(blockSize - 1)
        blockAddrBegin == BitAnd(addr, Pow2(AddrWidth) - blockSize)
        hl == [h EXCEPT !.log = Append(@, Ev("lowerRead", k, blockAddrBegin, 0,
                                               is_prefetch, FALSE))]
    IN IF HasLower(h, k)
       THEN getByte(hl, k + 1, blockAddrBegin, cyc, is_prefetch)
       ELSE MemRead(hl, blockAddrBegin, cyc)

\* line 245 of the fill: blocks[replaceId] = newBlock, in the hierarchy h2
\* reached after the write-back (if any)
replaceBlockBy(h2, k, addr, replaceId, replaceBlock, newBlock, before, propagated) ==
    IF h2.fatal # NoError THEN h2
    ELSE [h2 EXCEPT !.caches[k].blocks[replaceId] = newBlock,
                    !.caches[k].synced[replaceId] = TRUE,
                    !.log = Append(@, EvFill(k, addr, replaceId, replaceBlock, before,
                                             propagated))]

\* a new block that does not take the tag of the address
newBlockOf_NoTag(h1, k, addr) ==
    LET c == h1.caches[k]
    IN [valid |-> TRUE, modified |-> FALSE, tag |-> 0,
        id |-> getId(c, addr), size |-> c.policy.blockSize,
        lastReference |-> h1.junk,
        data |-> [j \in 0 .. c.policy.blockSize - 1 |-> IF j = 0 THEN h1.ret ELSE 0]]

\* the block the fill builds; lastReference is left unset by the code (h1.junk),
\* data is zeroed and gets the one byte read
newBlockOf(h1, k, addr) ==
    LET c == h1.caches[k]
    IN [valid |-> TRUE, modified |-> FALSE, tag |-> getTag(c, addr),
        id |-> getId(c, addr), size |-> c.policy.blockSize,
        lastReference |-> h1.junk,
        data |-> [j \in 0 .. c.policy.blockSize - 1 |-> IF j = 0 THEN h1.ret ELSE 0]]

\* a fill that overwrites the victim without writing it back
chooseAndReplace_NoWriteBack(h1, k, addr) ==
    IF h1.fatal # NoError THEN h1
    ELSE
    LET c == h1.caches[k]
        id == getId(c, addr)
        replaceId == getReplacementBlockId(c, id * c.policy.associativity,
                                           (id + 1) * c.policy.associativity)
    IN replaceBlockBy(h1, k, addr, replaceId, c.blocks[replaceId],
                      newBlockOf(h1, k, addr), c.blocks, c.synced[replaceId])

\* lines 234-245 of the fill, in the hierarchy h1 reached after the read: the
\* calls into the lower level have left this level's blocks alone
chooseAndReplace(h1, k, addr) ==
    IF h1.fatal # NoError THEN h1
    ELSE
    LET c == h1.caches[k]
        id == getId(c, addr)
        blockIdBegin == id * c.policy.associativity
        blockIdEnd == (id + 1) * c.policy.associativity
        replaceId == getReplacementBlockId(c, blockIdBegin, blockIdEnd)
        replaceBlock == c.blocks[replaceId]
        doWriteBack == c.writeBack /\ replaceBlock.valid /\ replaceBlock.modified
    IN replaceBlockBy(
          IF doWriteBack
          THEN [writeBlockToLowerLevel(h1, k, replaceBlock)
                  EXCEPT !.caches[k].statistics.totalCycles = @ + c.policy.missLatency]
          ELSE h1,
          k, addr, replaceId, replaceBlock, newBlockOf(h1, k, addr), c.blocks,
          doWriteBack \/ c.synced[replaceId])

loadBlockFromLowerLevel(h, k, addr, cyc, is_prefetch) ==
    chooseAndReplace(readBlockBegin(h, k, addr, cyc, is_prefetch), k, addr)

\* a getByte that returns the byte of the filled block without stamping it
getByteAfterLoad_NoStamp(h2, k, addr) ==
    IF h2.fatal # NoError THEN h2
    ELSE
    LET c == h2.caches[k]
        blockId == getBlockId(c, addr)
    IN IF blockId = Inconsistent THEN Fatal(h2, "Inconsistent ID")
       ELSE IF blockId # NotFound
       THEN [h2 EXCEPT !.ret = c.blocks[blockId].data[getOffset(c, addr)]]
       ELSE Fatal(h2, "data not in top level cache")

\* lines 77-85 of getByte, in the hierarchy h2 reached after the fill
getByteAfterLoad(h2, k, addr) ==
    IF h2.fatal # NoError THEN h2
    ELSE
    LET c == h2.caches[k]
        blockId == getBlockId(c, addr)
    IN IF blockId = Inconsistent THEN Fatal(h2, "Inconsistent ID")
       ELSE IF blockId # NotFound
       THEN [h2 EXCEPT
               !.caches[k].blocks[blockId].lastReference = c.referenceCounter,
               !.ret = c.blocks[blockId].data[getOffset(c, addr)]]
       ELSE Fatal(h2, "data not in top level cache")

\* a miss branch that tests the prefetch flag the wrong way round
getByteMiss_InvertedFlag(h, k, c1, addr, cyc, is_prefetch) ==
    LET c2 == IF is_prefetch
              THEN [c1 EXCEPT !.statistics.numMiss = @ + 1,
                              !.statistics.totalCycles = @ + c1.policy.missLatency]
              ELSE c1
    IN getByteAfterLoad(
          loadBlockFromLowerLevel(
             [h EXCEPT !.caches[k] = c2,
                       !.log = Append(@, Ev("get", k, addr, 0, is_prefetch, FALSE))],
             k, addr, cyc, is_prefetch),
          k, addr)

\* lines 70-85 of getByte (the lookup found nothing); c1 is the level after the
\* counter and numRead were advanced
getByteMiss(h, k, c1, addr, cyc, is_prefetch) ==
    LET c2 == IF ~is_prefetch
              THEN [c1 EXCEPT !.statistics.numMiss = @ + 1,
                              !.statistics.totalCycles = @ + c1.policy.missLatency]
              ELSE c1
    IN getByteAfterLoad(
          loadBlockFromLowerLevel(
             [h EXCEPT !.caches[k] = c2,
                       !.log = Append(@, Ev("get", k, addr, 0, is_prefetch, FALSE))],
             k, addr, cyc, is_prefetch),
          k, addr)

\* lines 60-85 of getByte: the lookup result blockId decides
getByteFrom(h, k, c1, blockId, addr, cyc, is_prefetch) ==
    IF blockId = Inconsistent THEN Fatal(h, "Inconsistent ID")
    ELSE IF blockId # NotFound
    THEN [h EXCEPT
            !.caches[k] = [c1 EXCEPT
                !.statistics.numHit = @ + 1,
                !.statistics.totalCycles = @ + c1.policy.hitLatency,
                !.blocks[blockId].lastReference = c1.referenceCounter],
            !.cycles = IF cyc THEN c1.policy.hitLatency ELSE @,
            !.ret = c1.blocks[blockId].data[getOffset(c1, addr)],
            !.log = Append(@, Ev("get", k, addr, 0, is_prefetch, TRUE))]
    ELSE getByteMiss(h, k, c1, addr, cyc, is_prefetch)

\* a getByte whose prefetches fill without looking the address up
getByte_PrefetchSkipsLookup(h, k, addr, cyc, is_prefetch) ==
    IF h.fatal # NoError THEN h
    ELSE
    LET c0 == h.caches[k]
        c1 == [c0 EXCEPT !.referenceCounter = @ + 1,
                         !.statistics.numRead = IF is_prefetch THEN @ ELSE @ + 1]
    IN getByteFrom(h, k, c1, IF is_prefetch THEN NotFound ELSE getBlockId(c1, addr),
                   addr, cyc, is_prefetch)

getByte(h, k, addr, cyc, is_prefetch) ==
    IF h.fatal # NoError THEN h
    ELSE
    LET c0 == h.caches[k]
        c1 == [c0 EXCEPT !.referenceCounter = @ + 1,
                         !.statistics.numRead = IF is_prefetch THEN @ ELSE @ + 1]
    IN getByteFrom(h, k, c1, getBlockId(c1, addr), addr, cyc, is_prefetch)

\* lines 105-106 of setByte, in the hierarchy h3 reached after the write-through
\* (if any)
setByteHitDone(h3, cyc, hitLatency) ==
    IF h3.fatal # NoError THEN h3
    ELSE [h3 EXCEPT !.cycles = IF cyc THEN hitLatency ELSE @]

\* a hit branch that writes the block through whatever writeBack says
setByteHit_WriteThrough(h, k, c1, blockId, addr, val, cyc) ==
    LET c2 == [c1 EXCEPT
                !.statistics.numHit = @ + 1,
                !.statistics.totalCycles = @ + c1.policy.hitLatency,
                !.blocks[blockId].modified = TRUE,
                !.blocks[blockId].lastReference = c1.referenceCounter,
                !.blocks[blockId].data[getOffset(c1, addr)] = val,
                !.synced[blockId] = FALSE]
        h2 == [h EXCEPT !.caches[k] = c2,
                        !.log = Append(@, Ev("set", k, addr, val, FALSE, TRUE))]
    IN setByteHitDone(
          [writeBlockToLowerLevel(h2, k, c2.blocks[blockId])
             EXCEPT !.caches[k].statistics.totalCycles = @ + c1.policy.missLatency,
                    !.caches[k].synced[blockId] = TRUE],
          cyc, c1.policy.hitLatency)

\* lines 95-106 of setByte: the lookup found slot blockId
setByteHit(h, k, c1, blockId, addr, val, cyc) ==
    LET c2 == [c1 EXCEPT
                !.statistics.numHit = @ + 1,
                !.statistics.totalCycles = @ + c1.policy.hitLatency,
                !.blocks[blockId].modified = TRUE,
                !.blocks[blockId].lastReference = c1.referenceCounter,
                !.blocks[blockId].data[getOffset(c1, addr)] = val,
                !.synced[blockId] = FALSE]
        h2 == [h EXCEPT !.caches[k] = c2,
                        !.log = Append(@, Ev("set", k, addr, val, FALSE, TRUE))]
    IN setByteHitDone(
          IF ~c1.writeBack
          THEN [writeBlockToLowerLevel(h2, k, c2.blocks[blockId])
                  EXCEPT !.caches[k].statistics.totalCycles = @ + c1.policy.missLatency,
                         !.caches[k].synced[blockId] = TRUE]
          ELSE h2,
          cyc, c1.policy.hitLatency)

\* lines 114-124 of setByte, in the hierarchy h3 reached after the fill
setByteAfterLoad(h3, k, addr, val) ==
    IF h3.fatal # NoError THEN h3
    ELSE
    LET c == h3.caches[k]
        blockId == getBlockId(c, addr)
    IN IF blockId = Inconsistent THEN Fatal(h3, "Inconsistent ID")
       ELSE IF blockId # NotFound
       THEN [h3 EXCEPT
               !.caches[k].blocks[blockId].modified = TRUE,
               !.caches[k].blocks[blockId].lastReference = c.referenceCounter,
               !.caches[k].blocks[blockId].data[getOffset(c, addr)] = val,
               !.caches[k].synced[blockId] = FALSE]
       ELSE Fatal(h3, "data not in top level cache")

\* a miss branch that allocates whatever writeAllocate says
setByteMiss_AlwaysAllocate(h, k, c1, addr, val, cyc) ==
    LET c2 == [c1 EXCEPT !.statistics.numMiss = @ + 1,
                         !.statistics.totalCycles = @ + c1.policy.missLatency]
        h2 == [h EXCEPT !.caches[k] = c2,
                        !.log = Append(@, Ev("set", k, addr, val, FALSE, FALSE))]
    IN setByteAfterLoad(loadBlockFromLowerLevel(h2, k, addr, cyc, FALSE),
                        k, addr, val)

\* lines 109-131 of setByte (the lookup found nothing)
setByteMiss(h, k, c1, addr, val, cyc) ==
    LET c2 == [c1 EXCEPT !.statistics.numMiss = @ + 1,
                         !.statistics.totalCycles = @ + c1.policy.missLatency]
        h2 == [h EXCEPT !.caches[k] = c2,
                        !.log = Append(@, Ev("set", k, addr, val, FALSE, FALSE))]
        hl == [h2 EXCEPT !.log = Append(@, Ev("lowerWrite", k, addr, val, FALSE, FALSE))]
    IN IF c1.writeAllocate
       THEN setByteAfterLoad(loadBlockFromLowerLevel(h2, k, addr, cyc, FALSE),
                             k, addr, val)
       ELSE IF HasLower(h, k)
            THEN setByte(hl, k + 1, addr, val, FALSE)
            ELSE MemWrite(hl, addr, val)

\* lines 93-131 of setByte: the lookup result blockId decides
setByteFrom(h, k, c1, blockId, addr, val, cyc) ==
    IF blockId = Inconsistent THEN Fatal(h, "Inconsistent ID")
    ELSE IF blockId # NotFound THEN setByteHit(h, k, c1, blockId, addr, val, cyc)
    ELSE setByteMiss(h, k, c1, addr, val, cyc)

setByte(h, k, addr, val, cyc) ==
    IF h.fatal # NoError THEN h
    ELSE
    LET c0 == h.caches[k]
        c1 == [c0 EXCEPT !.referenceCounter = @ + 1,
                         !.statistics.numWrite = @ + 1]
    IN setByteFrom(h, k, c1, getBlockId(c1, addr), addr, val, cyc)

(***************************************************************************)
(* A hierarchy as main builds it: the levels top first, each constructed   *)
(* with the one below as its lowerCache, and an empty memory.              *)
(***************************************************************************)
Hierarchy(levels) ==
    [caches |-> levels, mem |-> <<>>, ret |-> 0, cycles |-> 0, log |-> <<>>,
     fatal |-> NoError, junk |-> 0]

\* new Cache(memory, policy, nullptr, writeBack, writeAllocate) as the next
\* level of h: exit(-1) after "Policy invalid!", or the level is there.  A
\* division by zero in the validation traps or yields a remainder that fails
\* the check (divByZero says which).
DivByZero == {"trap", "remainder"}

construct(h, policy, writeBack, writeAllocate, divByZero) ==
    LET v == isPolicyValid(policy)
    IN IF v = Undefined
       THEN Fatal(h, IF divByZero = "trap" THEN "division by zero" ELSE "Policy invalid!")
       ELSE IF v = Invalid THEN Fatal(h, "Policy invalid!")
       ELSE [h EXCEPT !.caches = Append(@, Cache(policy, writeBack, writeAllocate))]

\* the state of the caller before a call: an empty event history, a cycles
\* variable holding 0, and the value the build leaves in an unset field
BeforeCall(h, junk) == [h EXCEPT !.log = <<>>, !.cycles = 0, !.ret = 0, !.junk = junk]

\* the caller after the call: the unset value is gone with the call's frame
AfterCall(h) == [h EXCEPT !.junk = 0]

\* the values an unset uint32_t field may hold
Junk == {0, UINT32_MAX}

(***************************************************************************)
(* Policies of the API specification (valid policies, small).              *)
(***************************************************************************)
\* one set of two ways (fully associative)
PolicyAssoc ==
    [cacheSize |-> 4, blockSize |-> 2, blockNum |-> 2, associativity |-> 2,
     hitLatency |-> 1, missLatency |-> 8]

\* two sets of one way (direct mapped)
PolicyDirect ==
    [cacheSize |-> 4, blockSize |-> 2, blockNum |-> 2, associativity |-> 1,
     hitLatency |-> 1, missLatency |-> 8]

\* a lower level: one set of two ways, slower
PolicyLower ==
    [cacheSize |-> 4, blockSize |-> 2, blockNum |-> 2, associativity |-> 2,
     hitLatency |-> 8, missLatency |-> 100]

LibConfigs ==
    { <<Cache(PolicyAssoc, wb, wa)>> : wb \in BOOLEAN, wa \in BOOLEAN }
    \cup { <<Cache(PolicyDirect, TRUE, TRUE)>> }
    \cup { <<Cache(PolicyDirect, wb, wa), Cache(PolicyLower, TRUE, TRUE)>> :
             wb \in BOOLEAN, wa \in BOOLEAN }

\* addresses of the API calls: blocks 0, 1 and 2, one address off the block start
LibAddrs == {1, 2, 4}

Vals == 1 .. MaxVal

(***************************************************************************)
(* The driver: main of MainMulCache.cpp.                                   *)
(* The three policies of main, with the sizes divided so that the model    *)
(* checker can hold them (L1 direct mapped, L2 and L3 set associative,     *)
(* L1 < L2 < L3); the latencies are those of main.                         *)
(***************************************************************************)
\* an L1 policy with a miss latency of 1
l1policy_MissOne ==
    [cacheSize |-> 8, blockSize |-> 2, blockNum |-> 4, associativity |-> 1,
     hitLatency |-> 1, missLatency |-> 1]

l1policy ==
    [cacheSize |-> 8, blockSize |-> 2, blockNum |-> 4, associativity |-> 1,
     hitLatency |-> 1, missLatency |-> 0]

l2policy ==
    [cacheSize |-> 16, blockSize |-> 2, blockNum |-> 8, associativity |-> 2,
     hitLatency |-> 8, missLatency |-> 0]

l3policy ==
    [cacheSize |-> 32, blockSize |-> 2, blockNum |-> 16, associativity |-> 4,
     hitLatency |-> 20, missLatency |-> 100]

DriverHierarchy ==
    Hierarchy(<<Cache(l1policy, TRUE, TRUE), Cache(l2policy, TRUE, TRUE),
                Cache(l3policy, TRUE, TRUE)>>)

\* the locals of main before the loop
InitCtl ==
    [last_addr |-> 0, stride |-> 0, is_prefetch |-> FALSE,
     same_stride_count |-> 0, diff_stride_count |-> 0]

\* addresses of the trace records
TraceAddrs == {0, 2, 4, 6, 8}
TraceWriteAddrs == {0}

\* memory->getByte(addr) and memory->setByte(addr, 0) of the MemoryManager:
\* the access goes to the top-level cache, without a cycles pointer
MemoryGetByte(h, addr) == getByte(h, 1, addr, FALSE, FALSE)
MemorySetByte(h, addr, val) == setByte(h, 1, addr, val, FALSE)

\* a prefetch issued without asking whether the address is in L1
issuePrefetch_Unchecked(h, prefetch_addr) ==
    IF h.fatal # NoError THEN h
    ELSE getByte(h, 1, prefetch_addr, FALSE, TRUE)

\* a prefetch issued without the prefetch flag
issuePrefetch_AsDemand(h, prefetch_addr) ==
    IF h.fatal # NoError THEN h
    ELSE LET id == getBlockId(h.caches[1], prefetch_addr)
             hl == [h EXCEPT !.log = Append(@, Ev("inCache", 1, prefetch_addr, 0, TRUE,
                                                   id # NotFound))]
         IN IF id = Inconsistent THEN Fatal(h, "Inconsistent ID")
            ELSE IF id = NotFound THEN getByte(hl, 1, prefetch_addr, FALSE, FALSE)
            ELSE hl

\* one prefetch of the loops of main: skipped when the address is in L1
issuePrefetch(h, prefetch_addr) ==
    IF h.fatal # NoError THEN h
    ELSE LET id == getBlockId(h.caches[1], prefetch_addr)
             hl == [h EXCEPT !.log = Append(@, Ev("inCache", 1, prefetch_addr, 0, TRUE,
                                                   id # NotFound))]
         IN IF id = Inconsistent THEN Fatal(h, "Inconsistent ID")
            ELSE IF id = NotFound THEN getByte(hl, 1, prefetch_addr, FALSE, TRUE)
            ELSE hl

\* for (int i = from; i <= n; ++i) prefetch addr + i * stride
RECURSIVE prefetchLoop(_, _, _, _, _)
prefetchLoop(h, addr, stride, i, n) ==
    IF i > n THEN h
    ELSE prefetchLoop(issuePrefetch(h, ToAddr(addr + i * stride)), addr, stride, i + 1, n)

\* a controller that leaves prefetching on the third violation
updateController_ThreeStrikes(c, addr) ==
    LET new_stride == addr - c.last_addr
        c1 == [c EXCEPT !.last_addr = addr]
        c2 == IF new_stride = c.stride
              THEN [c1 EXCEPT !.same_stride_count = @ + 1]
              ELSE [c1 EXCEPT !.stride = new_stride, !.same_stride_count = 1]
    IN IF ~c.is_prefetch
       THEN IF c2.same_stride_count >= 3
            THEN [ctl |-> [c2 EXCEPT !.is_prefetch = TRUE, !.diff_stride_count = 0],
                  issue |-> 3]
            ELSE [ctl |-> c2, issue |-> 0]
       ELSE IF new_stride = c.stride
            THEN [ctl |-> [c1 EXCEPT !.diff_stride_count = 0], issue |-> 2]
            ELSE IF c.diff_stride_count + 1 > 2
                 THEN [ctl |-> [c1 EXCEPT !.diff_stride_count = @ + 1,
                                          !.is_prefetch = FALSE,
                                          !.stride = new_stride,
                                          !.same_stride_count = 1],
                       issue |-> 0]
                 ELSE [ctl |-> [c1 EXCEPT !.diff_stride_count = @ + 1], issue |-> 0]

\* a controller that switches on after two matching strides
updateController_Two(c, addr) ==
    LET new_stride == addr - c.last_addr
        c1 == [c EXCEPT !.last_addr = addr]
        c2 == IF new_stride = c.stride
              THEN [c1 EXCEPT !.same_stride_count = @ + 1]
              ELSE [c1 EXCEPT !.stride = new_stride, !.same_stride_count = 1]
    IN IF ~c.is_prefetch
       THEN IF c2.same_stride_count >= 2
            THEN [ctl |-> [c2 EXCEPT !.is_prefetch = TRUE, !.diff_stride_count = 0],
                  issue |-> 3]
            ELSE [ctl |-> c2, issue |-> 0]
       ELSE IF new_stride = c.stride
            THEN [ctl |-> [c1 EXCEPT !.diff_stride_count = 0], issue |-> 2]
            ELSE IF c.diff_stride_count + 1 > 3
                 THEN [ctl |-> [c1 EXCEPT !.diff_stride_count = @ + 1,
                                          !.is_prefetch = FALSE,
                                          !.stride = new_stride,
                                          !.same_stride_count = 1],
                       issue |-> 0]
                 ELSE [ctl |-> [c1 EXCEPT !.diff_stride_count = @ + 1], issue |-> 0]

\* the controller part of the loop body: the locals after the record at addr,
\* and how many prefetches the body issues (addr + i * stride, i = 1 .. issue)
updateController(c, addr) ==
    LET new_stride == addr - c.last_addr
        c1 == [c EXCEPT !.last_addr = addr]
        c2 == IF new_stride = c.stride
              THEN [c1 EXCEPT !.same_stride_count = @ + 1]
              ELSE [c1 EXCEPT !.stride = new_stride, !.same_stride_count = 1]
    IN IF ~c.is_prefetch
       THEN IF c2.same_stride_count >= 3
            THEN [ctl |-> [c2 EXCEPT !.is_prefetch = TRUE, !.diff_stride_count = 0],
                  issue |-> 3]
            ELSE [ctl |-> c2, issue |-> 0]
       ELSE IF new_stride = c.stride
            THEN [ctl |-> [c1 EXCEPT !.diff_stride_count = 0], issue |-> 2]
            ELSE IF c.diff_stride_count + 1 > 3
                 THEN [ctl |-> [c1 EXCEPT !.diff_stride_count = @ + 1,
                                          !.is_prefetch = FALSE,
                                          !.stride = new_stride,
                                          !.same_stride_count = 1],
                       issue |-> 0]
                 ELSE [ctl |-> [c1 EXCEPT !.diff_stride_count = @ + 1], issue |-> 0]

\* lines 79-134 of the loop body, in the hierarchy h1 reached after the access
controllerPart(h1, c, u, addr) ==
    IF h1.fatal # NoError THEN [h |-> h1, ctl |-> c]
    ELSE [h |-> prefetchLoop(h1, addr, u.ctl.stride, 1, u.issue), ctl |-> u.ctl]

\* the body of the while loop for one record (type, addr), from the access on
loopBody(h, c, type, addr) ==
    controllerPart(IF type = "r" THEN MemoryGetByte(h, addr)
                   ELSE MemorySetByte(h, addr, 0),
                   c, updateController(c, addr), addr)

\* the same record against a hierarchy without the controller
loopBodyNoPrefetch(h, type, addr) ==
    IF type = "r" THEN MemoryGetByte(h, addr) ELSE MemorySetByte(h, addr, 0)

(***************************************************************************)
(* Specifications.                                                         *)
(*   Spec          calls of the Cache API on the top level of a hierarchy  *)
(*   SpecRoundTrip demand reads and writes only, longer call sequences     *)
(*   SpecDriver    the loop of main over a trace                           *)
(***************************************************************************)
\* the history record of a call: what was asked, what came back, and the
\* addresses the top level filled during it
Called(type, a, v, h) ==
    [type |-> type, addr |-> a, val |-> v, ret |-> h.ret,
     fills |-> LET f == SelectSeq(h.log, LAMBDA e : e.kind = "fill" /\ e.lvl = 1)
               IN [i \in 1 .. Len(f) |-> f[i].addr]]

Limit == IF mode = "roundtrip" THEN MaxRoundTrip ELSE MaxOps

Init ==
    /\ mode = "lib"
    /\ hier \in { Hierarchy(cfg) : cfg \in LibConfigs }
    /\ plain = hier
    /\ ctl = InitCtl
    /\ trace = <<>>

\* getByte(a, &cycles, false) on the top level
Get(a) ==
    /\ Len(trace) < Limit
    /\ hier.fatal = NoError
    /\ \E junk \in Junk : hier' = AfterCall(getByte(BeforeCall(hier, junk), 1, a, TRUE, FALSE))
    /\ trace' = Append(trace, Called("r", a, 0, hier'))
    /\ UNCHANGED <<plain, ctl, mode>>

\* setByte(a, v, &cycles) on the top level
Set(a, v) ==
    /\ Len(trace) < Limit
    /\ hier.fatal = NoError
    /\ \E junk \in Junk : hier' = AfterCall(setByte(BeforeCall(hier, junk), 1, a, v, TRUE))
    /\ trace' = Append(trace, Called("w", a, v, hier'))
    /\ UNCHANGED <<plain, ctl, mode>>

\* getByte(a, nullptr, true) on the top level
Prefetch(a) ==
    /\ Len(trace) < Limit
    /\ hier.fatal = NoError
    /\ \E junk \in Junk : hier' = AfterCall(getByte(BeforeCall(hier, junk), 1, a, FALSE, TRUE))
    /\ trace' = Append(trace, Called("p", a, 0, hier'))
    /\ UNCHANGED <<plain, ctl, mode>>

Next ==
    \/ \E a \in LibAddrs : Get(a)
    \/ \E a \in LibAddrs, v \in Vals : Set(a, v)
    \/ \E a \in LibAddrs : Prefetch(a)

Spec == Init /\ [][Next]_vars

\* the history record of a trace record: the call, and the locals of main
\* after the loop body
CalledRecord(type, a, h, c) ==
    [type |-> type, addr |-> a, val |-> 0, ret |-> h.ret,
     fills |-> Called(type, a, 0, h).fills, ctl |-> c]

TraceLimit == IF mode = "long" THEN MaxLongTrace ELSE MaxTrace

\* one iteration of the while loop of main for the record (type, a)
Record(type, a) ==
    /\ Len(trace) < TraceLimit
    /\ hier.fatal = NoError
    /\ \E junk \in Junk :
         \E r \in { loopBody(BeforeCall(hier, junk), ctl, type, a) } :
            /\ hier' = AfterCall(r.h)
            /\ ctl' = r.ctl
            /\ plain' = AfterCall(loopBodyNoPrefetch(BeforeCall(plain, junk), type, a))
    /\ trace' = Append(trace, CalledRecord(type, a, hier', ctl'))
    /\ UNCHANGED mode

ReadRecord(a) == Record("r", a)
WriteRecord(a) == Record("w", a)

InitDriver ==
    /\ mode = "driver"
    /\ hier = DriverHierarchy
    /\ plain = DriverHierarchy
    /\ ctl = InitCtl
    /\ trace = <<>>

NextDriver ==
    \/ \E a \in TraceAddrs : ReadRecord(a)
    \/ \E a \in TraceWriteAddrs : WriteRecord(a)

SpecDriver == InitDriver /\ [][NextDriver]_vars

\* the loop of main over longer traces of reads (the controller does not look
\* at the type of a record)
LongTraceAddrs == {0, 2, 4, 6}

InitLong ==
    /\ mode = "long"
    /\ hier = DriverHierarchy
    /\ plain = DriverHierarchy
    /\ ctl = InitCtl
    /\ trace = <<>>

NextLong == \E a \in LongTraceAddrs : ReadRecord(a)

SpecLong == InitLong /\ [][NextLong]_vars

\* write-allocate levels called with demand reads and writes only
RoundTripConfigs ==
    { <<Cache(PolicyAssoc, wb, TRUE)>> : wb \in BOOLEAN }

InitRoundTrip ==
    /\ mode = "roundtrip"
    /\ hier \in { Hierarchy(cfg) : cfg \in RoundTripConfigs }
    /\ plain = hier
    /\ ctl = InitCtl
    /\ trace = <<>>

NextRoundTrip ==
    \/ \E a \in LibAddrs : Get(a)
    \/ \E a \in LibAddrs, v \in Vals : Set(a, v)

SpecRoundTrip == InitRoundTrip /\ [][NextRoundTrip]_vars

\* the constructor called with any policy
PolicyFieldValues == (0 .. MaxField) \cup { Pow2(n) : n \in 0 .. FieldWidth - 1 }

Policies ==
    [cacheSize : PolicyFieldValues, blockSize : PolicyFieldValues,
     blockNum : PolicyFieldValues, associativity : PolicyFieldValues,
     hitLatency : {1}, missLatency : {8}]

InitPolicy ==
    /\ mode = "policy"
    /\ hier = Hierarchy(<<>>)
    /\ plain = hier
    /\ ctl = InitCtl
    /\ trace = <<>>

\* new Cache(memory, policy, nullptr, true, true)
Construct(policy) ==
    /\ mode = "policy"
    /\ trace = <<>>
    /\ \E d \in DivByZero : hier' = construct(hier, policy, TRUE, TRUE, d)
    /\ trace' = <<[type |-> "new", policy |-> policy]>>
    /\ UNCHANGED <<plain, ctl, mode>>

NextPolicy == \E policy \in Policies : Construct(policy)

SpecPolicy == InitPolicy /\ [][NextPolicy]_vars

(***************************************************************************)
(* Helpers of the properties.                                              *)
(***************************************************************************)
Levels == 1 .. Len(hier.caches)

Top == hier.caches[1]

\* the slots of the set that slot i belongs to
SetOf(c, i) ==
    { j \in DOMAIN c.blocks : j \div c.policy.associativity = i \div c.policy.associativity }

\* a and b lie in the same block of level c
SameBlock(c, a, b) == a \div c.policy.blockSize = b \div c.policy.blockSize

\* the number of fills of blocks other than a's into a's set of the top level
\* during calls i..j of the history
OtherFills(a, i, j) ==
    Cardinality({ p \in UNION { { <<m, n>> : n \in DOMAIN trace[m].fills } : m \in i .. j } :
                    /\ getId(Top, trace[p[1]].fills[p[2]]) = getId(Top, a)
                    /\ ~SameBlock(Top, trace[p[1]].fills[p[2]], a) })

(***************************************************************************)
(* C1.  Round trip in write-allocate mode: when setByte(A, v) is followed  *)
(* by reads only, and those reads fill at most associativity - 1 other     *)
(* blocks into A's set, the next getByte(A) returns v.                     *)
(***************************************************************************)
C1_RoundTrip ==
    \A i \in 1 .. Len(trace), j \in 1 .. Len(trace) :
        ( /\ i < j
          /\ Top.writeAllocate
          /\ trace[i].type = "w"
          /\ trace[j].type = "r"
          /\ trace[j].addr = trace[i].addr
          /\ \A m \in i + 1 .. j - 1 : trace[m].type = "r"
          /\ OtherFills(trace[i].addr, i + 1, j - 1) <= Top.policy.associativity - 1 )
        => trace[j].ret = trace[i].val

(***************************************************************************)
(* Helpers over the event history of the last call.                        *)
(***************************************************************************)
Log == hier.log

\* the fills of the last call whose victim was valid and modified
DirtyFills ==
    { f \in DOMAIN Log : /\ Log[f].kind = "fill"
                         /\ Log[f].old.valid
                         /\ Log[f].old.modified }

\* event p hands byte i of the victim of fill f to the level below, at the
\* victim's own address, and no event of that level other than such writes
\* lies between p and f
WritesBackByte(p, f, i) ==
    LET k == Log[f].lvl
        c == hier.caches[k]
    IN /\ p < f
       /\ Log[p].kind = "lowerWrite"
       /\ Log[p].lvl = k
       /\ getTag(c, Log[p].addr) = Log[f].old.tag
       /\ getId(c, Log[p].addr) = Log[f].slot \div c.policy.associativity
       /\ getOffset(c, Log[p].addr) = i
       /\ Log[p].val = Log[f].old.data[i]
       /\ \A q \in p + 1 .. f - 1 : Log[q].lvl = k => Log[q].kind = "lowerWrite"
       \* the write arrives: setByte of the lower cache, or the memory
       /\ Log[p + 1].addr = Log[p].addr
       /\ Log[p + 1].val = Log[p].val
       /\ IF k < Len(hier.caches)
          THEN Log[p + 1].kind = "set" /\ Log[p + 1].lvl = k + 1
          ELSE Log[p + 1].kind = "memWrite"

(***************************************************************************)
(* C2.  With write-back enabled, a fill whose victim is valid and modified *)
(* writes all blockSize bytes of the victim to the next lower level (the   *)
(* lower cache's setByte, or the memory) at the victim's block address,    *)
(* before it overwrites the slot.                                          *)
(***************************************************************************)
C2_WriteBackBeforeOverwrite ==
    \A f \in DirtyFills :
        hier.caches[Log[f].lvl].writeBack =>
            \A i \in 0 .. hier.caches[Log[f].lvl].policy.blockSize - 1 :
                \E p \in 1 .. f - 1 : WritesBackByte(p, f, i)

\* a fill of a write-back level has written a modified victim back
C2_Witness ==
    \E f \in DirtyFills :
        /\ hier.caches[Log[f].lvl].writeBack
        /\ \E p \in 1 .. f - 1 : WritesBackByte(p, f, 1)

(***************************************************************************)
(* C3.  For every combination of writeBack and writeAllocate: when a fill  *)
(* overwrites a valid and modified slot, the bytes of the slot were        *)
(* written to the lower level at some point after setByte last modified   *)
(* them.                                                                   *)
(***************************************************************************)
C3_DirtyNeverSilentlyOverwritten ==
    \A f \in DirtyFills : Log[f].hit

(***************************************************************************)
(* C4.  No set of any level holds two valid blocks with the same tag.      *)
(***************************************************************************)
C4_NoDuplicateTags ==
    \A k \in Levels :
        LET c == hier.caches[k]
        IN \A i \in DOMAIN c.blocks : \A j \in SetOf(c, i) :
              (i # j /\ c.blocks[i].valid /\ c.blocks[j].valid)
                  => c.blocks[i].tag # c.blocks[j].tag

\* some set holds two valid blocks, and the last call looked up a resident block
C4_Witness ==
    /\ \E k \in Levels :
          LET c == hier.caches[k]
          IN \E i \in DOMAIN c.blocks : \E j \in SetOf(c, i) :
                i # j /\ c.blocks[i].valid /\ c.blocks[j].valid
    /\ \E e \in DOMAIN Log : Log[e].kind = "get" /\ Log[e].pf /\ Log[e].hit

(***************************************************************************)
(* C5.  Every slot i of every level has blocks[i].id = i / associativity,  *)
(* also after fills have overwritten it.                                   *)
(***************************************************************************)
C5_IdIsSetIndex ==
    \A k \in Levels :
        LET c == hier.caches[k]
        IN \A i \in DOMAIN c.blocks : c.blocks[i].id = i \div c.policy.associativity

\* a fill has just overwritten a slot of a set other than set 0
C5_Witness ==
    \E f \in DOMAIN Log :
        /\ Log[f].kind = "fill"
        /\ Log[f].slot \div hier.caches[Log[f].lvl].policy.associativity > 0
        /\ hier.caches[Log[f].lvl].blocks[Log[f].slot].valid

(***************************************************************************)
(* C6.  A fill's victim is the first invalid slot of the target set if     *)
(* there is one; otherwise the slot of the set with the smallest           *)
(* lastReference, the lowest index on a tie.  In a single fully            *)
(* associative set, after a hit-free stream of associativity + 1 distinct  *)
(* blocks the first inserted block is the one evicted.                     *)
(***************************************************************************)
VictimAsSpecified(e) ==
    LET c == hier.caches[e.lvl]
        set == getId(c, e.addr)
        W == { i \in DOMAIN e.before : i \div c.policy.associativity = set }
        b == e.before
    IN /\ e.slot \in W
       /\ IF \E i \in W : ~b[i].valid
          THEN /\ ~b[e.slot].valid
               /\ \A i \in W : i < e.slot => b[i].valid
          ELSE \A i \in W :
                 /\ b[e.slot].lastReference <= b[i].lastReference
                 /\ b[i].lastReference = b[e.slot].lastReference => e.slot <= i

\* the history is a hit-free stream of associativity + 1 distinct blocks into
\* a single level of one set
HitFreeStream ==
    /\ Len(hier.caches) = 1
    /\ Top.policy.blockNum = Top.policy.associativity
    /\ Len(trace) = Top.policy.associativity + 1
    /\ \A i \in 1 .. Len(trace) : trace[i].fills = <<trace[i].addr>>
    /\ \A i \in 1 .. Len(trace), j \in 1 .. Len(trace) :
          i # j => ~SameBlock(Top, trace[i].addr, trace[j].addr)

C6_VictimSelection ==
    /\ \A f \in DOMAIN Log : Log[f].kind = "fill" => VictimAsSpecified(Log[f])
    /\ HitFreeStream =>
          /\ ~inCache(Top, trace[1].addr)
          /\ \A i \in 2 .. Len(trace) : inCache(Top, trace[i].addr)

\* the stream has run, and its last fill had to choose among valid blocks only
C6_Witness ==
    /\ HitFreeStream
    /\ \E f \in DOMAIN Log :
          /\ Log[f].kind = "fill"
          /\ \A i \in DOMAIN Log[f].before : Log[f].before[i].valid

(***************************************************************************)
(* C8.  A getByte issued with is_prefetch = true never increases numRead   *)
(* at any level, and at a level where it misses it leaves numMiss and      *)
(* totalCycles unchanged, also when the fill it triggers evicts a dirty    *)
(* block.                                                                  *)
(***************************************************************************)
\* the step is a prefetch call, and the prefetch missed at level k
PrefetchMissedAt(k) ==
    \E e \in DOMAIN hier'.log :
        /\ hier'.log[e].kind = "get"
        /\ hier'.log[e].lvl = k
        /\ hier'.log[e].pf
        /\ ~hier'.log[e].hit

C8_PrefetchLeavesCounters ==
    [][ (Len(trace') = Len(trace) + 1 /\ trace'[Len(trace')].type = "p") =>
          \A k \in Levels :
             /\ hier'.caches[k].statistics.numRead = hier.caches[k].statistics.numRead
             /\ PrefetchMissedAt(k) =>
                   /\ hier'.caches[k].statistics.numMiss
                         = hier.caches[k].statistics.numMiss
                   /\ hier'.caches[k].statistics.totalCycles
                         = hier.caches[k].statistics.totalCycles ]_vars

(***************************************************************************)
(* C9.  Cold miss then hit on a single level: two consecutive demand reads *)
(* of the same non-resident address leave numRead = 2, numHit = 1,         *)
(* numMiss = 1 and totalCycles = hitLatency + missLatency + the memory     *)
(* read cost of the fill (100 cycles per byte fetched from the memory).    *)
(***************************************************************************)
ColdMissThenHit ==
    /\ Len(hier.caches) = 1
    /\ Len(trace) = 2
    /\ trace[1].type = "r"
    /\ trace[2].type = "r"
    /\ trace[1].addr = trace[2].addr

\* the bytes the fill of the first read fetched from the memory
BytesFetched == Len(trace[1].fills)

C9_ColdMissThenHit_Original ==
    ColdMissThenHit =>
        /\ Top.statistics.numRead = 2
        /\ Top.statistics.numHit = 1
        /\ Top.statistics.numMiss = 1
        /\ Top.statistics.totalCycles =
              Top.policy.hitLatency + Top.policy.missLatency
              + MemReadCycles * BytesFetched

\* amended: totalCycles is hitLatency + missLatency; the memory read cost goes
\* to the caller's cycles variable of the missing call only (after the first
\* read it holds 100, after the hit it holds hitLatency)
ColdMiss ==
    /\ Len(hier.caches) = 1
    /\ Len(trace) = 1
    /\ trace[1].type = "r"

C9_ColdMissThenHit ==
    /\ ColdMiss =>
          /\ Top.statistics.numRead = 1
          /\ Top.statistics.numHit = 0
          /\ Top.statistics.numMiss = 1
          /\ Top.statistics.totalCycles = Top.policy.missLatency
          /\ hier.cycles = MemReadCycles
    /\ ColdMissThenHit =>
          /\ Top.statistics.numRead = 2
          /\ Top.statistics.numHit = 1
          /\ Top.statistics.numMiss = 1
          /\ Top.statistics.totalCycles = Top.policy.hitLatency + Top.policy.missLatency
          /\ hier.cycles = Top.policy.hitLatency

\* the second read of the address has hit
C9_Witness ==
    /\ ColdMissThenHit
    /\ Log[1].kind = "get" /\ Log[1].hit /\ ~Log[1].pf

(***************************************************************************)
(* Helpers of the driver's properties.                                     *)
(***************************************************************************)
PlainTop == plain.caches[1]

\* the prefetch reads the controller sent into the top level in the last record
PrefetchesIssued ==
    LET g == SelectSeq(Log, LAMBDA e : e.kind = "get" /\ e.lvl = 1 /\ e.pf)
    IN [i \in 1 .. Len(g) |-> g[i].addr]

(***************************************************************************)
(* C7.  Prefetch transparency: for every trace the top level's numRead and *)
(* numMiss are the same with the stride-prefetch controller and without    *)
(* it.                                                                     *)
(***************************************************************************)
C7_PrefetchTransparency_Original ==
    /\ Top.statistics.numRead = PlainTop.statistics.numRead
    /\ Top.statistics.numMiss = PlainTop.statistics.numMiss

\* amended: numRead and numWrite are the same; numMiss may differ
C7_PrefetchTransparency ==
    /\ Top.statistics.numRead = PlainTop.statistics.numRead
    /\ Top.statistics.numWrite = PlainTop.statistics.numWrite

\* the controller has prefetched, and a demand access hit where the run
\* without the controller missed
C7_Witness ==
    /\ ctl.is_prefetch
    /\ Top.statistics.numRead = PlainTop.statistics.numRead
    /\ Top.statistics.numMiss < PlainTop.statistics.numMiss

(***************************************************************************)
(* C10.  Prefetcher activation: from the initial controller state the      *)
(* controller switches to prefetching exactly at the first access A at     *)
(* which the same stride has been seen on 3 consecutive accesses, never    *)
(* earlier; at that access it issues prefetch reads into the top level for *)
(* A + stride, A + 2*stride, A + 3*stride, each skipped if already         *)
(* resident.  For the trace of reads at 0, 1, 2, 3 blocks the prefetches   *)
(* are the blocks 4, 5, 6, and a following demand read of block 4 hits L1. *)
(***************************************************************************)
\* the stride of the i-th record of the trace
StrideAt(i) == trace[i].addr - (IF i = 1 THEN 0 ELSE trace[i - 1].addr)

\* records i-2, i-1 and i have the same stride
ThreeSame(i) ==
    i >= 3 /\ StrideAt(i) = StrideAt(i - 1) /\ StrideAt(i - 1) = StrideAt(i - 2)

\* the last record is the first one with three equal strides
FirstActivation ==
    /\ Len(trace) >= 3
    /\ ThreeSame(Len(trace))
    /\ \A i \in 1 .. Len(trace) - 1 : ~ThreeSame(i)

\* the inCache questions of the last record, in order
Asked == SelectSeq(Log, LAMBDA e : e.kind = "inCache")

\* every inCache question is followed by a prefetch read of the top level
\* exactly when the answer was no
AskedThenIssued ==
    \A q \in DOMAIN Log :
        Log[q].kind = "inCache" =>
            IF Log[q].hit
            THEN q = Len(Log) \/ Log[q + 1].kind = "inCache"
            ELSE /\ q < Len(Log)
                 /\ Log[q + 1].kind = "get"
                 /\ Log[q + 1].lvl = 1
                 /\ Log[q + 1].pf
                 /\ Log[q + 1].addr = Log[q].addr

\* the trace starts with reads of the blocks 0, 1, ..., n - 1
ReadsOfBlocks(n) ==
    /\ Len(trace) >= n
    /\ \A i \in 1 .. n : trace[i].type = "r" /\ trace[i].addr = (i - 1) * l1policy.blockSize

C10_PrefetcherActivation ==
    /\ (\A i \in 1 .. Len(trace) : ~ThreeSame(i)) => ~ctl.is_prefetch
    /\ FirstActivation =>
          LET A == trace[Len(trace)].addr
              st == StrideAt(Len(trace))
          IN /\ ctl.is_prefetch
             /\ ctl.stride = st
             /\ Len(Asked) = 3
             /\ \A i \in 1 .. 3 : Asked[i].addr = ToAddr(A + i * st)
             /\ AskedThenIssued
             /\ Len(PrefetchesIssued) = Cardinality({ i \in 1 .. 3 : ~Asked[i].hit })
    /\ (Len(trace) = 4 /\ ReadsOfBlocks(4)) =>
          PrefetchesIssued = << 4 * l1policy.blockSize, 5 * l1policy.blockSize,
                                6 * l1policy.blockSize >>
    /\ (Len(trace) = 5 /\ ReadsOfBlocks(5)) =>
          /\ Log[1].kind = "get" /\ Log[1].lvl = 1 /\ ~Log[1].pf /\ Log[1].hit
          /\ Log[1].addr = 4 * l1policy.blockSize

\* the trace of the scenario has run and its fifth read was answered by L1
C10_Witness ==
    /\ Len(trace) = 5
    /\ ReadsOfBlocks(5)
    /\ ctl.is_prefetch
    /\ Log[1].hit

(***************************************************************************)
(* C11.  Prefetcher deactivation: once prefetching is on it stays on, with *)
(* the locked stride unchanged, until 4 consecutive accesses whose stride  *)
(* differs from the locked stride have occurred; an access with the locked *)
(* stride sets the violation count back to 0.  On the 4th consecutive      *)
(* violation the controller is back in training with the stride of that    *)
(* access and a same-stride count of 1.                                    *)
(***************************************************************************)
\* the locals of main before record j
CtlBefore(j) == IF j = 1 THEN InitCtl ELSE trace[j - 1].ctl

\* record j arrives while prefetching is on, with a stride other than the
\* locked one
Violation(j) ==
    /\ j >= 1
    /\ CtlBefore(j).is_prefetch
    /\ StrideAt(j) # CtlBefore(j).stride

\* records j-3 .. j are four violations in a row
FourViolations(j) ==
    j >= 4 /\ \A m \in j - 3 .. j : Violation(m)

C11_PrefetcherDeactivation ==
    \A j \in 1 .. Len(trace) :
        CtlBefore(j).is_prefetch =>
            /\ trace[j].ctl.is_prefetch <=> ~FourViolations(j)
            /\ trace[j].ctl.is_prefetch => trace[j].ctl.stride = CtlBefore(j).stride
            /\ ~Violation(j) => trace[j].ctl.diff_stride_count = 0
            /\ FourViolations(j) =>
                  /\ trace[j].ctl.stride = StrideAt(j)
                  /\ trace[j].ctl.same_stride_count = 1

\* prefetching was on with a non-zero stride, survived three violations and
\* was switched off by the fourth
C11_Witness ==
    /\ Len(trace) >= 4
    /\ FourViolations(Len(trace))
    /\ CtlBefore(Len(trace)).stride # 0
    /\ ~ctl.is_prefetch

(***************************************************************************)
(* C12.  Write-around: on a level with writeAllocate = false, a setByte    *)
(* that misses leaves every block slot of the level unchanged and forwards *)
(* exactly one single-byte write of the same address and value to the      *)
(* lower level, or to the memory when there is no lower level.             *)
(***************************************************************************)
\* the step is a setByte on the top level that missed
SetMissed ==
    /\ Len(trace') = Len(trace) + 1
    /\ trace'[Len(trace')].type = "w"
    /\ hier'.log[1].kind = "set" /\ hier'.log[1].lvl = 1 /\ ~hier'.log[1].hit

\* the events of the step in which the top level turns to its lower neighbour
\* or a write arrives there
TopForwards ==
    { e \in DOMAIN hier'.log :
        \/ hier'.log[e].lvl = 1 /\ hier'.log[e].kind \in {"lowerWrite", "lowerRead", "fill"}
        \/ hier'.log[e].lvl = 2 /\ hier'.log[e].kind \in {"set", "get"}
        \/ hier'.log[e].kind \in {"memWrite", "memRead"} /\ Len(hier.caches) = 1 }

C12_WriteAround ==
    [][ (SetMissed /\ ~Top.writeAllocate) =>
          LET a == trace'[Len(trace')].addr
              v == trace'[Len(trace')].val
              l == hier'.log
          IN /\ hier'.caches[1].blocks = hier.caches[1].blocks
             /\ TopForwards = {2, 3}
             /\ l[2].kind = "lowerWrite" /\ l[2].addr = a /\ l[2].val = v
             /\ l[3].addr = a /\ l[3].val = v
             /\ IF Len(hier.caches) > 1
                THEN l[3].kind = "set" /\ l[3].lvl = 2
                ELSE /\ l[3].kind = "memWrite"
                     /\ Len(l) = 3
                     /\ hier'.mem = setByteNoCache(hier.mem, a, v) ]_vars

\* a setByte has just missed a write-around level that holds a valid block,
\* and the byte went to the lower cache
C12_Witness ==
    /\ ~Top.writeAllocate
    /\ Len(hier.caches) > 1
    /\ \E i \in DOMAIN Top.blocks : Top.blocks[i].valid
    /\ Len(Log) >= 3
    /\ Log[1].kind = "set" /\ Log[1].lvl = 1 /\ ~Log[1].hit
    /\ Log[3].kind = "set" /\ Log[3].lvl = 2

(***************************************************************************)
(* C13.  Writeback conservation: for a single-level cache with write-back  *)
(* enabled, the sequence of byte writes the memory receives is exactly the *)
(* contents of the dirty blocks evicted, in eviction order: no other write *)
(* reaches the memory, and a block that is still dirty is not written.     *)
(* The property is stated for the events of one call; the writes of a run  *)
(* are those of its calls in order.                                        *)
(***************************************************************************)
\* the writes the memory received during the last call
MemWrites ==
    LET w == SelectSeq(Log, LAMBDA e : e.kind = "memWrite")
    IN [i \in 1 .. Len(w) |-> <<w[i].addr, w[i].val>>]

\* the bytes of block b of level c, each with its address
BytesOf(c, b) == [i \in 1 .. b.size |-> <<getAddr(c, b) + i - 1, b.data[i - 1]>>]

\* the contents of the dirty blocks the top level evicted during the last
\* call, from event i on
RECURSIVE EvictedFrom(_)
EvictedFrom(i) ==
    IF i > Len(Log) THEN <<>>
    ELSE (IF i \in DirtyFills /\ Log[i].lvl = 1
          THEN BytesOf(Top, Log[i].old) ELSE <<>>) \o EvictedFrom(i + 1)

C13_WritebackConservation_Original ==
    (Len(hier.caches) = 1 /\ Top.writeBack) => MemWrites = EvictedFrom(1)

\* amended: the level is write-allocate as well (a write-around miss sends
\* its byte to the memory)
C13_WritebackConservation ==
    (Len(hier.caches) = 1 /\ Top.writeBack /\ Top.writeAllocate)
        => MemWrites = EvictedFrom(1)

\* a dirty block holding a written byte has just been evicted and written to
\* the memory, while another block stays dirty in the cache
C13_Witness ==
    /\ Len(hier.caches) = 1 /\ Top.writeBack /\ Top.writeAllocate
    /\ \E f \in DirtyFills : \E i \in DOMAIN Log[f].old.data : Log[f].old.data[i] # 0
    /\ Len(MemWrites) = Top.policy.blockSize
    /\ \E i \in DOMAIN Top.blocks : Top.blocks[i].valid /\ Top.blocks[i].modified

(***************************************************************************)
(* C14.  Policy rejection: constructing a cache level fails (fatal error,  *)
(* no cache created) for every policy of unsigned fields that violates a   *)
(* constraint -- cacheSize a positive power of two, blockSize a power of   *)
(* two dividing cacheSize, blockNum = cacheSize / blockSize, associativity *)
(* a non-zero divisor of blockNum -- and succeeds for every policy that    *)
(* satisfies them all.                                                     *)
(***************************************************************************)
PositivePowerOfTwo(n) == \E e \in 0 .. FieldWidth - 1 : n = Pow2(e)

Constraints(p) ==
    /\ PositivePowerOfTwo(p.cacheSize)
    /\ PositivePowerOfTwo(p.blockSize)
    /\ p.cacheSize % p.blockSize = 0
    /\ p.blockNum = p.cacheSize \div p.blockSize
    /\ p.associativity # 0
    /\ p.blockNum % p.associativity = 0

C14_PolicyRejection ==
    (mode = "policy" /\ Len(trace) = 1) =>
        IF Constraints(trace[1].policy)
        THEN hier.fatal = NoError /\ Len(hier.caches) = 1
        ELSE hier.fatal # NoError /\ Len(hier.caches) = 0

(***************************************************************************)
(* C15.  The hierarchy the driver builds charges a miss latency of 1 cycle *)
(* at L1 (hit 1), 8 cycles at L2 (hit 8) and 100 cycles at L3 (hit 20):    *)
(* each demand miss at L1 adds 1 to L1's totalCycles and each demand miss  *)
(* at L2 adds 8 to L2's totalCycles.                                       *)
(***************************************************************************)
\* the step is an iteration of the driver's loop
RecordStep == Len(trace') = Len(trace) + 1

\* what the events of the step at level k add to the level's totalCycles when
\* a hit costs hitLatency and a demand miss or a write-back costs missLatency
Charged(k, hitLatency, missLatency) ==
    LET l == hier'.log
        at == { e \in DOMAIN l : l[e].lvl = k /\ l[e].kind \in {"get", "set"} }
    IN hitLatency * Cardinality({ e \in at : l[e].hit })
       + missLatency * Cardinality({ e \in at : ~l[e].hit /\ ~l[e].pf })
       + missLatency * Cardinality({ e \in DOMAIN l :
                                       /\ l[e].kind = "fill" /\ l[e].lvl = k
                                       /\ l[e].old.valid /\ l[e].old.modified })

\* level k has the two latencies, and the step charges by them
ChargesBy(k, hitLatency, missLatency) ==
    /\ hier.caches[k].policy.hitLatency = hitLatency
    /\ hier.caches[k].policy.missLatency = missLatency
    /\ hier'.caches[k].statistics.totalCycles
          = hier.caches[k].statistics.totalCycles + Charged(k, hitLatency, missLatency)

C15_DefaultLatencies_Original ==
    [][ RecordStep => /\ ChargesBy(1, 1, 1)
                      /\ ChargesBy(2, 8, 8)
                      /\ ChargesBy(3, 20, 100) ]_vars

\* amended: the miss latency of L1 and of L2 is 0, so a demand miss adds
\* nothing to the totalCycles of L1 or L2
C15_DefaultLatencies ==
    [][ RecordStep => /\ ChargesBy(1, 1, 0)
                      /\ ChargesBy(2, 8, 0)
                      /\ ChargesBy(3, 20, 100) ]_vars

\* the last record's demand access missed L1, L2 and L3 while earlier records
\* had hit L1
C15_Witness ==
    /\ mode = "driver"
    /\ Top.statistics.numHit > 0
    /\ \A k \in 1 .. 3 :
          \E e \in DOMAIN Log :
             Log[e].lvl = k /\ Log[e].kind = "get" /\ ~Log[e].hit /\ ~Log[e].pf
    /\ hier.caches[3].statistics.totalCycles > Top.statistics.totalCycles

(***************************************************************************)
(* C16.  Conservation of written data across eviction: in a write-back,    *)
(* write-allocate hierarchy, after setByte(A, v) every later getByte(A)    *)
(* with no setByte to A in between returns v, whatever the offset of A in  *)
(* its block, also when A's block was evicted and refilled in between.     *)
(***************************************************************************)
C16_ConservationAcrossEviction ==
    (\A k \in Levels : hier.caches[k].writeBack /\ hier.caches[k].writeAllocate) =>
        \A i \in 1 .. Len(trace), j \in 1 .. Len(trace) :
            ( /\ i < j
              /\ trace[i].type = "w"
              /\ trace[j].type = "r"
              /\ trace[j].addr = trace[i].addr
              /\ \A m \in i + 1 .. j - 1 :
                    ~(trace[m].type = "w" /\ trace[m].addr = trace[i].addr) )
            => trace[j].ret = trace[i].val

(***************************************************************************)
(* C17.  The two structural fatal errors are unreachable: for the valid    *)
(* policies and every sequence of calls, the lookup never visits a slot    *)
(* whose id differs from the set searched ("Inconsistent ID"), and after   *)
(* the fill of a getByte miss or of a write-allocate setByte miss the      *)
(* requested address is resident in the level (else "data not in top level *)
(* cache").                                                                *)
(***************************************************************************)
\* the fills of the last call at level k
FillsAt(k) == { f \in DOMAIN Log : Log[f].kind = "fill" /\ Log[f].lvl = k }

C17_FatalErrorsUnreachable ==
    /\ hier.fatal = NoError
    /\ \A k \in Levels : isPolicyValid(hier.caches[k].policy) = Valid
    /\ (Len(trace) > 0 /\ FillsAt(1) # {}) =>
          /\ getBlockId(Top, trace[Len(trace)].addr) \notin {NotFound, Inconsistent}
          /\ \A f \in FillsAt(1) : Log[f].addr = trace[Len(trace)].addr

\* a write-allocate setByte has missed both levels of a hierarchy and its
\* fill of the top level replaced a valid block of another tag
C17_Witness ==
    /\ Len(hier.caches) = 2
    /\ Len(trace) > 0
    /\ trace[Len(trace)].type = "w"
    /\ FillsAt(2) # {}
    /\ \E f \in FillsAt(1) :
          /\ Log[f].old.valid
          /\ Log[f].old.tag # getTag(Top, Log[f].addr)
    /\ inCache(Top, trace[Len(trace)].addr)

(***************************************************************************)
(* C18.  Write-through: on a level with write-back disabled, when a        *)
(* setByte hit has stored the byte and propagated the block to the lower   *)
(* level, the slot is left Clean (valid and not modified).                 *)
(***************************************************************************)
\* the last call was a setByte that hit the top level and wrote the block
\* through
WroteThrough ==
    /\ Len(trace) > 0
    /\ trace[Len(trace)].type = "w"
    /\ ~Top.writeBack
    /\ Log[1].kind = "set" /\ Log[1].lvl = 1 /\ Log[1].hit
    /\ \E p \in DOMAIN Log : Log[p].kind = "lowerWrite" /\ Log[p].lvl = 1

C18_WriteThroughLeavesClean ==
    WroteThrough =>
        LET slot == getBlockId(Top, trace[Len(trace)].addr)
        IN /\ slot \in DOMAIN Top.blocks
           /\ Top.blocks[slot].valid
           /\ ~Top.blocks[slot].modified

(***************************************************************************)
(* C19.  At every level the referenceCounter never decreases and grows by  *)
(* exactly one per getByte or setByte call on that level; after a call     *)
(* that hits or fills, the block that served it has lastReference equal to *)
(* the counter; so a slot's lastReference never decreases and no two valid *)
(* blocks of a level hold the same lastReference.                          *)
(***************************************************************************)
\* the getByte and setByte calls that arrived at level k during the step
CallsAt(k) ==
    { e \in DOMAIN hier'.log : hier'.log[e].lvl = k /\ hier'.log[e].kind \in {"get", "set"} }

\* call e of the step was served by a block of its level: it hit, or the
\* level filled for its address afterwards
Served(e) ==
    \/ hier'.log[e].hit
    \/ \E f \in e + 1 .. Len(hier'.log) :
          /\ hier'.log[f].kind = "fill"
          /\ hier'.log[f].lvl = hier'.log[e].lvl
          /\ hier'.log[f].addr = hier'.log[e].addr

C19_ReferenceCounter ==
    [][ Len(trace') = Len(trace) + 1 =>
          \A k \in Levels :
             LET c == hier.caches[k]
                 d == hier'.caches[k]
             IN /\ d.referenceCounter = c.referenceCounter + Cardinality(CallsAt(k))
                /\ \A i \in DOMAIN c.blocks :
                      d.blocks[i].lastReference >= c.blocks[i].lastReference
                /\ \A i \in DOMAIN d.blocks, j \in DOMAIN d.blocks :
                      (i # j /\ d.blocks[i].valid /\ d.blocks[j].valid)
                          => d.blocks[i].lastReference # d.blocks[j].lastReference
                \* the last call at the level leaves its stamp on the block
                /\ \A e \in CallsAt(k) :
                      ((\A e2 \in CallsAt(k) : e2 <= e) /\ Served(e)) =>
                          LET slot == getBlockId(d, hier'.log[e].addr)
                          IN /\ slot \in DOMAIN d.blocks
                             /\ d.blocks[slot].lastReference = d.referenceCounter ]_vars

\* the last call was served by a fill of the top level that replaced a valid
\* block, the lower level was called more than once, and both levels hold
\* two valid blocks
C19_Witness ==
    /\ Len(hier.caches) = 2
    /\ \E f \in FillsAt(1) : Log[f].old.valid
    /\ Cardinality({ e \in DOMAIN Log : Log[e].lvl = 2 /\ Log[e].kind \in {"get", "set"} }) > 1
    /\ \A k \in Levels :
          Cardinality({ i \in DOMAIN hier.caches[k].blocks : hier.caches[k].blocks[i].valid }) = 2
    /\ \E i \in DOMAIN Top.blocks : Top.blocks[i].lastReference = Top.referenceCounter

(***************************************************************************)
(* C20.  A fill transfers a single byte: each fill of a level issues       *)
(* exactly one read to its lower neighbour, for the block-aligned base     *)
(* address -- one getByte of the lower cache carrying the same prefetch    *)
(* flag, or one getByteNoCache of the memory, which charges 100 cycles to  *)
(* the caller's cycles -- so a miss at level k that evicts no dirty block  *)
(* causes exactly one access at level k + 1.                               *)
(***************************************************************************)
\* the reads level k issued to its lower neighbour during the last call
ReadsBy(k) == { p \in DOMAIN Log : Log[p].kind = "lowerRead" /\ Log[p].lvl = k }

\* the read that belongs to fill f: the last one its level issued before f
ReadOf(f) ==
    CHOOSE p \in ReadsBy(Log[f].lvl) :
        p < f /\ \A q \in ReadsBy(Log[f].lvl) : q < f => q <= p

\* the call (a miss) that triggered fill f: the last one that arrived at its
\* level before f
CallOf(f) ==
    CHOOSE e \in DOMAIN Log :
        /\ e < f /\ Log[e].lvl = Log[f].lvl /\ Log[e].kind \in {"get", "set"}
        /\ \A e2 \in e + 1 .. f - 1 :
              ~(Log[e2].lvl = Log[f].lvl /\ Log[e2].kind \in {"get", "set"})

\* what arrives below level k between events e and f
ArrivalsBelow(k, e, f) ==
    { p \in e + 1 .. f - 1 :
        IF k < Len(hier.caches)
        THEN Log[p].lvl = k + 1 /\ Log[p].kind \in {"get", "set"}
             \* calls of level k itself, not those the lower level makes
             /\ Log[p - 1].lvl = k /\ Log[p - 1].kind \in {"lowerRead", "lowerWrite"}
        ELSE Log[p].kind \in {"memRead", "memWrite"} }

\* the fill wrote its victim back
WroteBack(f) ==
    /\ hier.caches[Log[f].lvl].writeBack
    /\ Log[f].old.valid
    /\ Log[f].old.modified

C20_FillTransfersSingleByte ==
    /\ \A k \in Levels :
          /\ Cardinality(ReadsBy(k)) = Cardinality(FillsAt(k))
          /\ \A f \in FillsAt(k) :
                LET c == hier.caches[k]
                    e == CallOf(f)
                    p == ReadOf(f)
                    base == Log[f].addr - getOffset(c, Log[f].addr)
                IN /\ ~Log[e].hit /\ Log[e].addr = Log[f].addr
                   /\ e < p
                   \* exactly one read between the miss and the fill
                   /\ { q \in ReadsBy(k) : e < q /\ q < f } = {p}
                   /\ Log[p].addr = base
                   /\ Log[p].pf = Log[e].pf
                   \* it arrives as one getByte with the same flag, or at the memory
                   /\ Log[p + 1].addr = base
                   /\ IF k < Len(hier.caches)
                      THEN /\ Log[p + 1].kind = "get" /\ Log[p + 1].lvl = k + 1
                           /\ Log[p + 1].pf = Log[e].pf
                      ELSE Log[p + 1].kind = "memRead"
                   /\ ~WroteBack(f) => ArrivalsBelow(k, e, f) = {p + 1}
    \* a demand call on a single level that filled leaves 100 in the caller's cycles
    /\ (Len(hier.caches) = 1 /\ Len(trace) > 0 /\ trace[Len(trace)].type \in {"r", "w"}
          /\ FillsAt(1) # {}) => hier.cycles = MemReadCycles

\* a prefetch has missed both levels of a hierarchy: each level filled a
\* block of two bytes from one read, without a write-back
C20_Witness ==
    /\ Len(hier.caches) = 2
    /\ Len(trace) > 0 /\ trace[Len(trace)].type = "p"
    /\ \A k \in Levels :
          /\ hier.caches[k].policy.blockSize = 2
          /\ \E f \in FillsAt(k) : ~WroteBack(f) /\ Log[ReadOf(f)].pf
    /\ Cardinality({ p \in DOMAIN Log : Log[p].kind = "memRead" }) = 1

(***************************************************************************)
(* C21.  Top-level accounting identity: under the driver (demand accesses  *)
(* and prefetches issued only for addresses that are not in L1), after     *)
(* every trace record the top-level cache has                              *)
(* numHit + numMiss = numRead + numWrite.                                  *)
(***************************************************************************)
C21_TopLevelAccounting ==
    Top.statistics.numHit + Top.statistics.numMiss
        = Top.statistics.numRead + Top.statistics.numWrite

\* the controller has prefetched into L1, a write has gone through L1, and a
\* demand access has hit a block that only the prefetch had brought in
C21_Witness ==
    /\ mode = "driver"
    /\ ctl.is_prefetch
    /\ Top.statistics.numWrite > 0
    /\ Top.statistics.numRead > 0
    /\ Top.statistics.numHit > PlainTop.statistics.numHit
    /\ Top.statistics.numMiss > 0

====
